---- MODULE Spec2Model ----
(***************************************************************************)
(* Model of the mongos request router, src/mongo/s/strategy.cpp:           *)
(*   Strategy::clientCommandOp  - command dispatch with staleness retry    *)
(*   Strategy::writeOp          - batch writer                             *)
(*   Strategy::queryOp/getMore  - cursor cache and merged cursors          *)
(* Three specifications share the variables: SpecCmd, SpecWrite and Spec   *)
(* (the cursor paths); each leaves the other components' state unchanged.  *)
(***************************************************************************)
EXTENDS Integers, Sequences, FiniteSets, TLC

\* ------------------------------------------------------------------ bounds
\* number of distinct namespaces a StaleConfigException may carry
MaxStaleNs == 2
\* largest number of sub-requests msgToBatchRequests yields in the model
MaxRequests == 3

\* number of documents of a merged result
MaxDocs == 3
\* largest ntoreturn of a get-more (that of a query goes up to MaxDocs)
MaxBatch == 2
\* largest $maxTimeMS hint of a query
MaxTimeMS == 2
\* largest time, in milliseconds, a Timer measures within one call
MaxElapsed == 2
\* get-more calls made on one cursor id
MaxCalls == 2
\* longest "op" operand string of a kill operation
MaxOperandLen == 4
\* largest operation id a shard reports or a numeral is compared with
MaxOpid == 77
\* longest shard name of the operation-id round trip
MaxNameLen == 2

\* ------------------------------------------------------- program constants
\* int loops = 5;
InitialLoops == 5
\* if( loops < 4 ) versionManager.forceRemoteCheckShardVersionCB( staleNS );
ForceRefreshBelow == 4

\* 0 represents "no limit" (mongo/db/max_time.h)
kMaxTimeCursorNoTimeLimit == 0
\* the stored budget of a cursor whose time limit has expired
kMaxTimeCursorTimeLimitExpired == -1

VARIABLES
    \* ---- CursorCache cursorCache
    cursors,        \* ids of the merged cursors in the cache
    cursorsMaxTimeMS, \* id -> stored remaining budget
    refs,           \* ids that resolve as a remote-passthrough reference
    created,        \* merged cursor ids handed out so far
    \* ---- ShardedClientCursor objects, by id
    totalSent,      \* getTotalSent()
    \* ---- history of each merged cursor
    hint,           \* the $maxTimeMS of its query
    idleTime,       \* time passed between requests since its query replied
    calls,          \* get-more calls made on the id
    spent,          \* router-side time the timers measured for it so far
    repliedDocs,    \* sum of the document counts of the replies sent for it
    overlap,        \* two get-mores were ever in flight on it together
    expiredIds,     \* ids evicted because their budget had expired
    \* ---- the workers; queryOp runs in one step, getMore in several
    pc,             \* position of the worker's getMore call
    loc,            \* locals of the worker's getMore call
    res,            \* outcome of the worker's last queryOp or getMore
    \* ---- Strategy::clientCommandOp
    cmdPc,          \* "idle" | "loop" | "replied" | "thrown"
    cmdNs,          \* q.ns of the command being run
    cmdQuery,       \* q.query, the command document
    cmdAudit,       \* what the audit log recorded for the call
    cmdShardCalls,  \* shards handleSpecialNamespaces has contacted
    sysReply,       \* the document handleSpecialNamespaces replied with
    loops,          \* the local retry counter
    execHist,       \* one record per Command::runAgainstRegistered call
    refreshed,      \* was a forced refresh done since the last execution
    refreshLog,     \* namespaces passed to forceRemoteCheckShardVersionCB
    connCheckLog,   \* namespaces passed to checkMyConnectionVersions
    cmdReplies,     \* replies sent by replyToQuery
    cmdThrown,      \* exception that left clientCommandOp, or "none"
    \* ---- an operation id listed by inprog and handed to killop
    opPc,           \* "idle" | "listed" | "killed"
    opShards,       \* the names of two different shards
    opOpid,         \* the local opid both report
    opListed,       \* per shard, its entry as inprog rewrote it
    opPick,         \* the shard whose listed opid is handed to killop
    opKilled,       \* the shard calls of that killop
    \* ---- Strategy::writeOp
    wPc,            \* "idle" | "next" | "running" | "done" | "thrown"
    requests,       \* the sub-requests, each [ordered |-> BOOLEAN]
    it,             \* index of the current sub-request
    wExecuted,      \* indices whose command was executed, in order
    wOutcome,       \* outcome of each executed sub-request
    lastErrorDisabled, \* LastError::Disabled in effect
    lastErrorFrom,  \* index of the sub-request lastError was populated from
    lastErrorRequests, \* number of lastError.startRequest calls
    lastErrorState, \* what the lastError object holds: [from, outcome] records
    insertCount     \* r.gotInsert() calls

cursorVars == <<cursors, cursorsMaxTimeMS, refs, created, totalSent,
                hint, idleTime, calls, spent, repliedDocs, overlap, expiredIds,
                pc, loc, res>>
opidVars == <<opPc, opShards, opOpid, opListed, opPick, opKilled>>
cmdVars == <<cmdPc, cmdNs, cmdQuery, cmdAudit, cmdShardCalls, sysReply,
             loops, execHist, refreshed, refreshLog,
             connCheckLog, cmdReplies, cmdThrown, opidVars>>
writeVars == <<wPc, requests, it, wExecuted, wOutcome, lastErrorDisabled,
               lastErrorFrom, lastErrorRequests, lastErrorState, insertCount>>

\* ========================================================================
\* Strings and BSON documents
\* ========================================================================
\* a string is a sequence of characters; the characters of the model
Chars == {"a", ":", "7", "0", "-"}
Digits == {"0", "1", "2", "3", "4", "5", "6", "7", "8", "9"}

RECURSIVE SeqsUpTo(_, _)
SeqsUpTo(S, n) ==
    IF n = 0 THEN {<<>>}
    ELSE LET shorter == SeqsUpTo(S, n - 1)
         IN  shorter \cup {Append(t, c) : t \in shorter, c \in S}

\* positions in a string count from 0; string::npos
npos == -1

RECURSIVE FindFrom(_, _, _)
FindFrom(s, c, pos) ==
    IF pos >= Len(s) THEN npos
    ELSE IF s[pos + 1] = c THEN pos
    ELSE FindFrom(s, c, pos + 1)

\* variant: the position of the last c
FindLast(s, c) ==
    IF \E k \in 1..Len(s) : s[k] = c
    THEN (CHOOSE k \in 1..Len(s) :
             s[k] = c /\ \A j \in (k + 1)..Len(s) : s[j] # c) - 1
    ELSE npos

\* s.find( c ): the position of the first c, npos if there is none
Find(s, c) == FindFrom(s, c, 0)

\* s.substr( pos , n ) and s.substr( pos )
Substr(s, pos, n) ==
    SubSeq(s, pos + 1, IF pos + n > Len(s) THEN Len(s) ELSE pos + n)
\* variant: the suffix starts one character early
SubstrToEndFromBefore(s, pos) == SubSeq(s, pos, Len(s))
SubstrToEnd(s, pos) == SubSeq(s, pos + 1, Len(s))

DigitVal(c) ==
    CASE c = "0" -> 0 [] c = "1" -> 1 [] c = "2" -> 2 [] c = "3" -> 3
      [] c = "4" -> 4 [] c = "5" -> 5 [] c = "6" -> 6 [] c = "7" -> 7
      [] c = "8" -> 8 [] c = "9" -> 9

DigitChar(d) ==
    CASE d = 0 -> "0" [] d = 1 -> "1" [] d = 2 -> "2" [] d = 3 -> "3"
      [] d = 4 -> "4" [] d = 5 -> "5" [] d = 6 -> "6" [] d = 7 -> "7"
      [] d = 8 -> "8" [] d = 9 -> "9"

\* atoi: optional white space, an optional sign, then the leading digits;
\* what follows the digits is ignored, and no digit at all gives 0
RECURSIVE AtoiDigits(_, _, _)
AtoiDigits(s, i, acc) ==
    IF i > Len(s) \/ s[i] \notin Digits THEN acc
    ELSE AtoiDigits(s, i + 1, acc * 10 + DigitVal(s[i]))

RECURSIVE SkipSpaces(_, _)
SkipSpaces(s, i) ==
    IF i <= Len(s) /\ s[i] = " " THEN SkipSpaces(s, i + 1) ELSE i

Atoi(s) ==
    LET i == SkipSpaces(s, 1)
    IN  IF i <= Len(s) /\ s[i] = "-" THEN 0 - AtoiDigits(s, i + 1, 0)
        ELSE IF i <= Len(s) /\ s[i] = "+" THEN AtoiDigits(s, i + 1, 0)
        ELSE AtoiDigits(s, i, 0)

\* ss << n, for an int n
RECURSIVE ToDecimalNat(_)
ToDecimalNat(n) ==
    IF n < 10 THEN <<DigitChar(n)>>
    ELSE Append(ToDecimalNat(n \div 10), DigitChar(n % 10))

ToDecimal(n) == IF n < 0 THEN <<"-">> \o ToDecimalNat(0 - n) ELSE ToDecimalNat(n)

\* a BSON value: its type, and the number, string or embedded object it holds
BInt(n) == [t |-> "int", n |-> n, s |-> <<>>, o |-> <<>>]
BStr(s) == [t |-> "string", n |-> 0, s |-> s, o |-> <<>>]
BObj(o) == [t |-> "object", n |-> 0, s |-> <<>>, o |-> o]
EOO == [t |-> "eoo", n |-> 0, s |-> <<>>, o |-> <<>>]
\* a BSON element; a document is a sequence of elements
Fld(name, val) == [name |-> name, val |-> val]

\* obj.firstElement(): the EOO element when the object is empty
FirstElement(obj) == IF obj = <<>> THEN Fld("", EOO) ELSE obj[1]

\* obj[ name ]: the first element of that name, the EOO element if none
GetField(obj, name) ==
    IF \E i \in 1..Len(obj) : obj[i].name = name
    THEN obj[CHOOSE i \in 1..Len(obj) :
                /\ obj[i].name = name
                /\ \A j \in 1..(i - 1) : obj[j].name # name]
    ELSE Fld("", EOO)

HasField(obj, name) == GetField(obj, name).val.t # "eoo"

\* e.numberInt(): 0 for an element that is not a number
NumberInt(val) == IF val.t = "int" THEN val.n ELSE 0

\* ========================================================================
\* Strategy::handleSpecialNamespaces
\* ========================================================================
SysNamespaces == {"admin.$cmd.sys.inprog", "admin.$cmd.sys.killop",
                  "admin.$cmd.sys.unlock", "admin.$cmd.sys.fsync"}

\* what follows ".$cmd.sys." in the namespace, "" when strstr finds nothing
SysCommand(ns) ==
    CASE ns = "admin.$cmd.sys.inprog" -> "inprog"
      [] ns = "admin.$cmd.sys.killop" -> "killop"
      [] ns = "admin.$cmd.sys.unlock" -> "unlock"
      [] ns = "admin.$cmd.sys.fsync" -> "fsync"
      [] OTHER -> ""

\* Shard::getAllShards( shards ): the names of the shards
AllShards == << <<"a">>, <<"a", "0">> >>

\* one entry of a shard's inprog array, with the opid field rewritten, the
\* client field renamed and the other fields copied
RewriteEntry(shardName, entry) ==
    [k \in 1..Len(entry) |->
        IF entry[k].name = "opid"
        THEN Fld("opid", BStr(shardName \o <<":">>
                                \o ToDecimal(NumberInt(entry[k].val))))
        ELSE IF entry[k].name = "client"
        THEN Fld("client_s", entry[k].val)
        ELSE entry[k]]

\* the entries the loop over the shards appends, from shard i on; reports[i]
\* is temp["inprog"] of shard i
RECURSIVE InprogEntries(_, _)
InprogEntries(reports, i) ==
    IF i > Len(AllShards) THEN <<>>
    ELSE (IF reports[i].t = "object"
          THEN [k \in 1..Len(reports[i].o) |->
                   Fld("", BObj(RewriteEntry(AllShards[i],
                                            reports[i].o[k].val.o)))]
          ELSE <<>>)
         \o InprogEntries(reports, i + 1)

\* the inprog branch once authorized: the reply and the shards contacted
InProg(reports) ==
    [reply |-> <<Fld("inprog", BObj(InprogEntries(reports, 1)))>>,
     calls |-> [i \in 1..Len(AllShards) |->
                  [shard |-> AllShards[i], what |-> "inprog", opid |-> 0]]]

\* the killop branch once authorized: the reply and the shards contacted
KillOp(query) ==
    LET e == GetField(query, "op")
    IN  IF e.val.t # "string"
        THEN [reply |-> <<Fld("err", BStr(<<"bad op">>)), e>>, calls |-> <<>>]
        ELSE LET str == e.val.s
                 i == Find(str, ":")
             IN  IF i = npos
                 THEN [reply |-> <<e, Fld("err", BStr(<<"bad opid">>))>>,
                       calls |-> <<>>]
                 ELSE LET shard == Substr(str, 0, i)
                          opid == Atoi(SubstrToEnd(str, i + 1))
                      IN  [reply |-> <<e, Fld("shard", BStr(shard)),
                                       Fld("shardid", BInt(opid))>>,
                           calls |-> <<[shard |-> shard, what |-> "killop",
                                        opid |-> opid]>>]

NoAudit == [check |-> "none", code |-> "none"]

\* variant: the audit event records success whatever the check said
AuthzCodeAlwaysOK(isAuthorized) == "OK"

\* isAuthorized ? ErrorCodes::OK : ErrorCodes::Unauthorized
AuthzCode(isAuthorized) == IF isAuthorized THEN "OK" ELSE "Unauthorized"

\* handleSpecialNamespaces as a whole: handled is its return value, thrown
\* the exception that leaves it instead
HandleSpecialNamespaces(ns, query, isAuthorized, reports) ==
    LET sys == SysCommand(ns)
        code == AuthzCode(isAuthorized)
        denied == [handled |-> FALSE, thrown |-> "Unauthorized",
                   audit |-> [check |-> sys, code |-> code],
                   reply |-> <<>>, calls |-> <<>>]
    IN  IF sys = "inprog"
        THEN IF ~isAuthorized THEN denied
             ELSE [handled |-> TRUE, thrown |-> "none",
                   audit |-> [check |-> sys, code |-> code],
                   reply |-> InProg(reports).reply,
                   calls |-> InProg(reports).calls]
        ELSE IF sys = "killop"
        THEN IF ~isAuthorized THEN denied
             ELSE [handled |-> TRUE, thrown |-> "none",
                   audit |-> [check |-> sys, code |-> code],
                   reply |-> KillOp(query).reply,
                   calls |-> KillOp(query).calls]
        ELSE IF sys = "unlock"
        THEN [handled |-> TRUE, thrown |-> "none", audit |-> NoAudit,
              reply |-> <<Fld("err",
                              BStr(<<"can't do unlock through mongos">>))>>,
              calls |-> <<>>]
        ELSE [handled |-> FALSE, thrown |-> "none", audit |-> NoAudit,
              reply |-> <<>>, calls |-> <<>>]

\* ------------------------------------------------------------------------
\* an operation id on its way from inprog to killop
\* the names a shard may have, and the opids it may report
ShardNames == SeqsUpTo(Chars, MaxNameLen)
Opids == {0 - 7, 0, 7, MaxOpid}

\* what a shard reports for one operation
InprogOp(opid) ==
    <<Fld("opid", BInt(opid)), Fld("client", BStr(<<"c">>)),
      Fld("active", BInt(1))>>

\* inprog: two shards report an operation each, under the same local opid;
\* the loop body of lines 308-323 rewrites each entry
OpidList(names, opid) ==
    /\ opPc = "idle"
    /\ names[1] # names[2]
    /\ opShards' = names
    /\ opOpid' = opid
    /\ opListed' = [i \in 1..2 |-> RewriteEntry(names[i], InprogOp(opid))]
    /\ opPc' = "listed"
    /\ UNCHANGED <<opPick, opKilled>>

\* killop with the "opid" value of the entry listed for shard i as its "op"
OpidKill(i) ==
    /\ opPc = "listed"
    /\ opPick' = i
    /\ opKilled' = HandleSpecialNamespaces("admin.$cmd.sys.killop",
                        <<Fld("op", GetField(opListed[i], "opid").val)>>,
                        TRUE, <<>>).calls
    /\ opPc' = "killed"
    /\ UNCHANGED <<opShards, opOpid, opListed>>

OpidInit ==
    /\ opPc = "idle"
    /\ opShards = <<>>
    /\ opOpid = 0
    /\ opListed = <<>>
    /\ opPick = 0
    /\ opKilled = <<>>

\* ========================================================================
\* Strategy::clientCommandOp
\* ========================================================================
CmdNamespaces == {"db1.$cmd", "db2.$cmd"}
\* e.getns() of a StaleConfigException: may be empty for legacy reasons
StaleNamespaces == {""} \cup {"db.coll" \o ToString(i) : i \in 1..MaxStaleNs}

\* variant: the bound test is strict
StaleRetriesExhaustedStrict(l) == l < 0

\* if ( loops <= 0 ) throw e;
StaleRetriesExhausted(l) == l <= 0

\* variant: the refresh is forced on the first retry too
ShouldForceRefreshAlways(l) == l <= ForceRefreshBelow

\* variant: the refresh is skipped before the last attempt, not the first
ShouldForceRefreshNotLast(l) == l > 0

\* if( loops < 4 ) versionManager.forceRemoteCheckShardVersionCB( staleNS );
ShouldForceRefresh(l) == l < ForceRefreshBelow

\* string staleNS = e.getns(); if( staleNS.size() == 0 ) staleNS = q.ns;
StaleNS(ens, qns) == IF ens = "" THEN qns ELSE ens

\* e.fieldName()[0] == '$' ? str::equals("query", e.fieldName()+1)
\*                           : str::equals("query", e.fieldName())
DollarNames == {"$query", "$queryOptions", "$readPreference"}
AfterDollar(name) ==
    CASE name = "$query" -> "query"
      [] name = "$queryOptions" -> "queryOptions"
      [] name = "$readPreference" -> "readPreference"
IsQueryFieldName(name) ==
    IF name \in DollarNames THEN AfterDollar(name) = "query"
    ELSE name = "query"

\* Query::ReadPrefField.name()
ReadPrefFieldName == "$readPreference"

\* variant: the read preference of the wrapper is dropped
UnwrapWithoutReadPref(query) ==
    LET e == FirstElement(query)
    IN  IF e.val.t = "object" /\ IsQueryFieldName(e.name)
        THEN e.val.o
        ELSE query

\* BSONObj cmdObj = q.query; ... the embedded query object is extracted
Unwrap(query) ==
    LET e == FirstElement(query)
    IN  IF e.val.t = "object" /\ IsQueryFieldName(e.name)
        THEN IF HasField(query, ReadPrefFieldName)
             THEN e.val.o \o
                  <<Fld("$queryOptions",
                        BObj(<<GetField(query, ReadPrefFieldName)>>))>>
             ELSE e.val.o
        ELSE query

\* variant: every exception is caught by catch ( AssertionException& )
CaughtAsAssertionAny(exception) == TRUE

\* catch ( AssertionException& e ): the exceptions of that class; the others
\* (a DBException that is no AssertionException, a std::exception) pass
CaughtAsAssertion(exception) == exception = "AssertionException"

\* the exceptions runAgainstRegistered raises besides StaleConfigException
OtherExceptions == {"AssertionException", "SocketException"}

\* entry of clientCommandOp: handleSpecialNamespaces, then "int loops = 5;"
CmdStart(ns, query, isAuthorized, reports) ==
    /\ cmdPc = "idle"
    /\ cmdNs' = ns
    /\ cmdQuery' = query
    /\ LET h == HandleSpecialNamespaces(ns, query, isAuthorized, reports)
       IN  /\ cmdAudit' = h.audit
           /\ cmdShardCalls' = h.calls
           /\ sysReply' = h.reply
           /\ IF h.thrown # "none"
              THEN /\ cmdPc' = "thrown"
                   /\ cmdThrown' = h.thrown
                   /\ UNCHANGED <<loops, cmdReplies>>
              ELSE IF h.handled
              THEN /\ cmdPc' = "replied"
                   /\ cmdReplies' = Append(cmdReplies, "sys")
                   /\ UNCHANGED <<loops, cmdThrown>>
              ELSE /\ cmdPc' = "loop"
                   /\ loops' = InitialLoops
                   /\ UNCHANGED <<cmdReplies, cmdThrown>>
    /\ UNCHANGED <<execHist, refreshed, refreshLog, connCheckLog>>

\* one iteration of while(true): runAgainstRegistered returns normally
CmdExecOk ==
    /\ cmdPc = "loop"
    /\ execHist' = Append(execHist, [refreshed |-> refreshed, loops |-> loops,
                                     cmd |-> Unwrap(cmdQuery),
                                     outcome |-> "ok"])
    /\ cmdReplies' = Append(cmdReplies, "result")
    /\ cmdPc' = "replied"
    /\ refreshed' = FALSE
    /\ UNCHANGED <<cmdNs, cmdQuery, cmdAudit, cmdShardCalls, sysReply,
                   loops, refreshLog, connCheckLog, cmdThrown>>

\* one iteration: runAgainstRegistered throws StaleConfigException
CmdExecStale(ens) ==
    /\ cmdPc = "loop"
    /\ execHist' = Append(execHist, [refreshed |-> refreshed, loops |-> loops,
                                     cmd |-> Unwrap(cmdQuery),
                                     outcome |-> "stale"])
    /\ IF StaleRetriesExhausted(loops)
       THEN /\ cmdPc' = "thrown"
            /\ cmdThrown' = "StaleConfigException"
            /\ refreshed' = FALSE
            /\ UNCHANGED <<loops, refreshLog, connCheckLog>>
       ELSE /\ loops' = loops - 1
            /\ connCheckLog' = Append(connCheckLog, StaleNS(ens, cmdNs))
            /\ IF ShouldForceRefresh(loops')
               THEN /\ refreshLog' = Append(refreshLog, StaleNS(ens, cmdNs))
                    /\ refreshed' = TRUE
               ELSE /\ refreshLog' = refreshLog
                    /\ refreshed' = FALSE
            /\ UNCHANGED <<cmdPc, cmdThrown>>
    /\ UNCHANGED <<cmdNs, cmdQuery, cmdAudit, cmdShardCalls, sysReply,
                   cmdReplies>>

\* one iteration: runAgainstRegistered throws another exception; an
\* AssertionException is answered with appendCommandStatus, any other leaves
\* clientCommandOp
CmdExecThrows(exception) ==
    /\ cmdPc = "loop"
    /\ execHist' = Append(execHist, [refreshed |-> refreshed, loops |-> loops,
                                     cmd |-> Unwrap(cmdQuery),
                                     outcome |-> exception])
    /\ IF CaughtAsAssertion(exception)
       THEN /\ cmdReplies' = Append(cmdReplies, "errdoc")
            /\ cmdPc' = "replied"
            /\ UNCHANGED cmdThrown
       ELSE /\ cmdPc' = "thrown"
            /\ cmdThrown' = exception
            /\ UNCHANGED cmdReplies
    /\ refreshed' = FALSE
    /\ UNCHANGED <<cmdNs, cmdQuery, cmdAudit, cmdShardCalls, sysReply,
                   loops, refreshLog, connCheckLog>>

CmdInit ==
    /\ cmdPc = "idle"
    /\ cmdNs = ""
    /\ cmdQuery = <<>>
    /\ cmdAudit = NoAudit
    /\ cmdShardCalls = <<>>
    /\ sysReply = <<>>
    /\ loops = 0
    /\ execHist = <<>>
    /\ refreshed = FALSE
    /\ refreshLog = <<>>
    /\ connCheckLog = <<>>
    /\ cmdReplies = <<>>
    /\ cmdThrown = "none"
    /\ OpidInit

\* ========================================================================
\* Strategy::writeOp
\* ========================================================================
WriteOutcomes == {"ok", "wcError", "writeError"}

\* bool hadError = batchErrorToLastError(...): a non-write-concern error
HadError(outcome) == outcome = "writeError"

\* variant: the ordered flag is not consulted
BatchShouldStopAnyError(ordered, hadError) == hadError

\* if ( request->getOrdered() && hadError ) break;
BatchShouldStop(ordered, hadError) == ordered /\ hadError

\* what the lastError object holds when writeOp is entered: the state the
\* client's previous operation left
PriorLastError == {[from |-> 0, outcome |-> "prior"]}

\* variant: the state is not cleared before it is populated
LastErrorResetKeeps(state) == state

\* lastError.get( false )->reset();
LastErrorReset(state) == {}

\* batchErrorToLastError( *request, response, lastError.get( false ) )
BatchErrorToLastError(state, i, outcome) ==
    state \cup {[from |-> i, outcome |-> outcome]}

RequestBatches ==
    UNION {[1..n -> [ordered : BOOLEAN]] : n \in 1..MaxRequests}

\* msgToBatchRequests( r.m(), &requests ) and entry of the for loop
WriteStart(reqs, ins) ==
    /\ wPc = "idle"
    /\ requests' = reqs
    /\ it' = 1
    /\ wPc' = "next"
    /\ insertCount' = IF ins THEN 0 ELSE -1
    /\ UNCHANGED <<wExecuted, wOutcome, lastErrorDisabled, lastErrorFrom,
                   lastErrorRequests, lastErrorState>>

\* loop head up to the construction of LastError::Disabled
WriteBeginRequest ==
    /\ wPc = "next"
    /\ lastErrorRequests' = IF it # 1 THEN lastErrorRequests + 1
                                      ELSE lastErrorRequests
    /\ lastErrorDisabled' = TRUE
    /\ wPc' = "running"
    /\ UNCHANGED <<requests, it, wExecuted, wOutcome, lastErrorFrom,
                   lastErrorState, insertCount>>

\* runAgainstRegistered returns; the rest of the loop body
WriteFinishRequest(outcome, n) ==
    /\ wPc = "running"
    /\ lastErrorDisabled' = FALSE
    /\ wExecuted' = Append(wExecuted, it)
    /\ wOutcome' = Append(wOutcome, outcome)
    /\ lastErrorFrom' = it
    /\ lastErrorState' =
          BatchErrorToLastError(LastErrorReset(lastErrorState), it, outcome)
    /\ insertCount' = IF insertCount >= 0 THEN insertCount + n ELSE insertCount
    /\ IF BatchShouldStop(requests[it].ordered, HadError(outcome))
       THEN /\ wPc' = "done"
            /\ it' = it
       ELSE /\ it' = it + 1
            /\ wPc' = IF it + 1 > Len(requests) THEN "done" ELSE "next"
    /\ UNCHANGED <<requests, lastErrorRequests>>

\* runAgainstRegistered throws: the Disabled guard is destroyed, writeOp exits
WriteThrow ==
    /\ wPc = "running"
    /\ lastErrorDisabled' = FALSE
    /\ wExecuted' = Append(wExecuted, it)
    /\ wOutcome' = Append(wOutcome, "throw")
    /\ wPc' = "thrown"
    /\ UNCHANGED <<requests, it, lastErrorFrom, lastErrorRequests,
                   lastErrorState, insertCount>>

WriteInit ==
    /\ wPc = "idle"
    /\ requests = <<>>
    /\ it = 0
    /\ wExecuted = <<>>
    /\ wOutcome = <<>>
    /\ lastErrorDisabled = FALSE
    /\ lastErrorFrom = 0
    /\ lastErrorRequests = 1
    /\ lastErrorState = PriorLastError
    /\ insertCount = 0


\* ========================================================================
\* Strategy::queryOp and Strategy::getMore over the cursor cache
\* ========================================================================
Workers == {"w1", "w2"}
Ids == {1, 2}

Min(a, b) == IF a <= b THEN a ELSE b

MapPut(f, k, v) == [x \in (DOMAIN f) \cup {k} |-> IF x = k THEN v ELSE f[x]]
MapDel(f, k) == [x \in (DOMAIN f) \ {k} |-> f[x]]

\* ---- CursorCache (mongo/s/cursors.cpp)
\* cursorCache.get( id ): is there a merged cursor
CacheGet(id) == id \in cursors
\* cursorCache.getRef( id ): is there a remote host for the id
CacheGetRef(id) == id \in refs
\* cursorCache.getMaxTimeMS( id ): 0 when the id has no entry
CacheGetMaxTimeMS(id) ==
    IF id \in DOMAIN cursorsMaxTimeMS THEN cursorsMaxTimeMS[id] ELSE 0

\* ---- ShardedClientCursor::sendNextBatch (mongo/s/cursors.cpp)
\* number of documents put in the batch, from offset base
BatchDocCount(base, ntoreturn) ==
    IF base >= MaxDocs THEN 0 ELSE Min(ntoreturn, MaxDocs - base)

\* ---- Strategy::queryOp, budget stored with the cursor
\* variant: a leftover of 0 is stored as it is
QueryLeftoverMillisNoClamp(maxTimeMS, elapsed) ==
    IF maxTimeMS = 0 THEN kMaxTimeCursorNoTimeLimit
    ELSE IF maxTimeMS - elapsed < 0 THEN kMaxTimeCursorTimeLimitExpired
    ELSE maxTimeMS - elapsed

\* variant: the difference is stored whatever its sign
QueryLeftoverMillisUnchecked(maxTimeMS, elapsed) ==
    IF maxTimeMS = 0 THEN kMaxTimeCursorNoTimeLimit
    ELSE maxTimeMS - elapsed

\* variant: the "no limit" case is not singled out
QueryLeftoverMillisNoUnlimited(maxTimeMS, elapsed) ==
    IF maxTimeMS - elapsed <= 0 THEN kMaxTimeCursorTimeLimitExpired
    ELSE maxTimeMS - elapsed

QueryLeftoverMillis(maxTimeMS, elapsed) ==
    IF maxTimeMS = 0 THEN kMaxTimeCursorNoTimeLimit
    ELSE IF maxTimeMS - elapsed <= 0 THEN kMaxTimeCursorTimeLimitExpired
    ELSE maxTimeMS - elapsed

\* ---- Strategy::getMore, budget written back
\* variant: a leftover of 0 is written back as it is
GetMoreLeftoverMillisNoClamp(cursorMaxTimeMS, elapsed) ==
    IF cursorMaxTimeMS - elapsed < 0 THEN kMaxTimeCursorTimeLimitExpired
    ELSE cursorMaxTimeMS - elapsed

GetMoreLeftoverMillis(cursorMaxTimeMS, elapsed) ==
    IF cursorMaxTimeMS - elapsed <= 0 THEN kMaxTimeCursorTimeLimitExpired
    ELSE cursorMaxTimeMS - elapsed

\* variant: an id found in both maps is served from the remote reference
CursorIdNotDuplicatedRemoteWins(cursorCached, hostSet) == TRUE

\* massert( 17012, ..., NULL == cursorCache.get( id ).get() || host.empty() )
CursorIdNotDuplicated(cursorCached, hostSet) == ~cursorCached \/ ~hostSet

\* variant: the expiry test never fires
TimeLimitExpiredNever(cursorMaxTimeMS) ==
    cursorMaxTimeMS < kMaxTimeCursorTimeLimitExpired

\* variant: every non-positive budget counts as expired
TimeLimitExpiredNonPositive(cursorMaxTimeMS) == cursorMaxTimeMS <= 0

\* if ( cursorMaxTimeMS == kMaxTimeCursorTimeLimitExpired )
TimeLimitExpired(cursorMaxTimeMS) ==
    cursorMaxTimeMS = kMaxTimeCursorTimeLimitExpired

\* variant: the offset is read after the batch was sent
ReplyStartFromAfter(startFrom, totalNow) == totalNow

\* const int startFrom = cursor->getTotalSent(); ... replyToQuery( startFrom )
ReplyStartFrom(startFrom, totalNow) == startFrom

\* variant: the reply always carries the id
ReplyCursorIdAlways(hasMore, id) == id

\* replyToQuery( ..., hasMore ? cc->getId() : 0 )
ReplyCursorId(hasMore, id) == IF hasMore THEN id ELSE 0

\* variant: the budget is kept in a variable shared by the calls
BudgetOfCallShared(w) ==
    LET o == CHOOSE v \in Workers : v # w
    IN  IF pc[o] \in {"check", "merged", "send", "update"}
        THEN loc[o].maxTime ELSE loc[w].maxTime

\* int cursorMaxTimeMS, a local of the call
BudgetOfCall(w) == loc[w].maxTime

IdleLoc == [id |-> 0, ntoreturn |-> 0, host |-> FALSE,
            cursor |-> FALSE, maxTime |-> 0, audit |-> "none", startFrom |-> 0, base |-> 0,
            docCount |-> 0, hasMore |-> FALSE, alone |-> TRUE,
            contacted |-> FALSE,
            snapCached |-> FALSE, snapTotal |-> 0, snapMaxTime |-> 0]

NoRes == [op |-> "none", kind |-> "none", id |-> 0, audit |-> "none",
          frames |-> 0, startFrom |-> 0, docCount |-> 0, cursorId |-> 0,
          contacted |-> FALSE]

\* router-side time measured for a cursor (counted up to MaxTimeMS)
Spent(sofar, elapsed) == Min(sofar + elapsed, MaxTimeMS)

InFlight(w) == pc[w] # "idle"

\* a millisecond passes between the requests (counted up to MaxTimeMS)
Idle ==
    /\ \A w \in Workers : ~InFlight(w)
    /\ idleTime' = [i \in Ids |->
                      IF i \in created THEN Min(idleTime[i] + 1, MaxTimeMS)
                      ELSE idleTime[i]]
    /\ idleTime' # idleTime
    /\ UNCHANGED <<cursors, cursorsMaxTimeMS, refs, created, totalSent,
                   hint, calls, spent, repliedDocs, overlap, expiredIds,
                   pc, loc, res>>

\* variant: r.reply relays the reply and stores nothing
StoresRemoteRefNever(cid) == FALSE

\* r.reply( ... ) "implicitly stores the cursor in the cache": the cursor id
\* of the relayed reply, when there is one
StoresRemoteRef(cid) == cid # 0

\* whether a call of queryOp that ends as kind has contacted a shard: the
\* authorization check, 8010 and 17233 come before doIndexQuery, the explain
\* and cursor->init(), which are the calls that do
QueryContactsShard(kind) ==
    kind \notin {"Unauthorized", "Location8010", "Location17233"}

\* the call of queryOp ends: an exception, or one reply
QueryReturn(w, kind, audit, frames, id, docCount, cursorId) ==
    res' = [res EXCEPT ![w] = [op |-> "query", kind |-> kind, id |-> id,
                               audit |-> audit, frames |-> frames,
                               startFrom |-> 0, docCount |-> docCount,
                               cursorId |-> cursorId,
                               contacted |-> QueryContactsShard(kind)]]

\* the exceptions that leave queryOp: uassertStatusOK(status), 8010, 17233,
\* cursor->init(), and 10200 or RecvStaleConfigException of doIndexQuery
QueryFailures == {"Unauthorized", "Location8010", "Location17233",
                  "CursorInit", "Location10200", "RecvStaleConfig"}

\* queryOp throws; logQueryAuthzCheck has recorded the status before
QueryOpThrow(w, kind) ==
    /\ pc[w] = "idle"
    /\ QueryReturn(w, kind,
                   IF kind = "Unauthorized" THEN "Unauthorized" ELSE "OK",
                   0, 0, 0, 0)
    /\ UNCHANGED <<cursors, cursorsMaxTimeMS, refs, created, totalSent,
                   hint, idleTime, calls, spent, repliedDocs, overlap,
                   expiredIds, pc, loc>>

\* queryOp on system.indexes of a sharded namespace: doIndexQuery relays the
\* reply of one shard with r.reply, as the single-shard path does
QueryOpIndexes(w, cid) ==
    /\ pc[w] = "idle"
    /\ cid \notin refs
    /\ refs' = IF StoresRemoteRef(cid) THEN refs \cup {cid} ELSE refs
    /\ QueryReturn(w, "indexes", "OK", 1, cid, 0, cid)
    /\ UNCHANGED <<cursors, cursorsMaxTimeMS, created, totalSent,
                   hint, idleTime, calls, spent, repliedDocs, overlap,
                   expiredIds, pc, loc>>

\* queryOp: qSpec.isExplain(); the explain document is the reply
QueryOpExplain(w) ==
    /\ pc[w] = "idle"
    /\ QueryReturn(w, "explain", "OK", 1, 0, 1, 0)
    /\ UNCHANGED <<cursors, cursorsMaxTimeMS, refs, created, totalSent,
                   hint, idleTime, calls, spent, repliedDocs, overlap,
                   expiredIds, pc, loc>>

\* queryOp: cursor->isSharded(), the merged path
QueryOpSharded(w, id, maxTimeMS, elapsed, ntoreturn) ==
    /\ pc[w] = "idle"
    /\ id \notin created
    /\ \A j \in Ids : j < id => j \in created
    /\ LET docCount == BatchDocCount(0, ntoreturn)
           hasMore == docCount < MaxDocs
           cursorLeftoverMillis == QueryLeftoverMillis(maxTimeMS, elapsed)
       IN  /\ created' = created \cup {id}
           /\ totalSent' = [totalSent EXCEPT ![id] = docCount]
           /\ hint' = [hint EXCEPT ![id] = maxTimeMS]
           /\ spent' = [spent EXCEPT ![id] = Spent(0, elapsed)]
           /\ IF hasMore
              THEN /\ cursors' = cursors \cup {id}
                   /\ cursorsMaxTimeMS' =
                         MapPut(cursorsMaxTimeMS, id, cursorLeftoverMillis)
              ELSE UNCHANGED <<cursors, cursorsMaxTimeMS>>
           /\ repliedDocs' = [repliedDocs EXCEPT ![id] = docCount]
           /\ QueryReturn(w, "batch", "OK", 1, id, docCount,
                          ReplyCursorId(hasMore, id))
    /\ UNCHANGED <<refs, idleTime, calls, overlap, expiredIds, pc, loc>>

\* queryOp: the single-shard path; r.reply relays the shard's reply and
\* "implicitly stores the cursor in the cache": the shard's cursor id cid, when
\* it is not 0, becomes a remote reference
QueryOpSingle(w, cid) ==
    /\ pc[w] = "idle"
    /\ cid \notin refs
    /\ refs' = IF StoresRemoteRef(cid) THEN refs \cup {cid} ELSE refs
    /\ QueryReturn(w, "single", "OK", 1, cid, 0, cid)
    /\ UNCHANGED <<cursors, cursorsMaxTimeMS, created, totalSent,
                   hint, idleTime, calls, spent, repliedDocs, overlap,
                   expiredIds, pc, loc>>

\* getMore: Timer getMoreTimer; pullInt; pullInt64; cursorCache.getRef( id )
GetMoreBegin(w, id, ntoreturn) ==
    /\ pc[w] = "idle"
    /\ calls[id] < MaxCalls
    /\ calls' = [calls EXCEPT ![id] = @ + 1]
    /\ LET others == {v \in Workers \ {w} : InFlight(v) /\ loc[v].id = id}
       IN  /\ loc' = [v \in Workers |->
                 IF v = w
                 THEN [IdleLoc EXCEPT !.id = id, !.ntoreturn = ntoreturn,
                          !.host = CacheGetRef(id),
                          !.alone = (others = {}),
                          !.snapCached = CacheGet(id),
                          !.snapTotal = totalSent[id],
                          !.snapMaxTime = CacheGetMaxTimeMS(id)]
                 ELSE IF v \in others THEN [loc[v] EXCEPT !.alone = FALSE]
                 ELSE loc[v]]
           /\ overlap' = IF others # {} THEN [overlap EXCEPT ![id] = TRUE]
                                        ELSE overlap
    /\ pc' = [pc EXCEPT ![w] = "get"]
    /\ res' = [res EXCEPT ![w] = NoRes]
    /\ UNCHANGED <<cursors, cursorsMaxTimeMS, refs, created, totalSent,
                   hint, idleTime, spent, repliedDocs, expiredIds>>

\* ShardedClientCursorPtr cursor = cursorCache.get( id );
GetMoreGet(w) ==
    /\ pc[w] = "get"
    /\ loc' = [loc EXCEPT ![w].cursor = CacheGet(loc[w].id)]
    /\ pc' = [pc EXCEPT ![w] = "maxtime"]
    /\ UNCHANGED <<cursors, cursorsMaxTimeMS, refs, created, totalSent,
                   hint, idleTime, calls, spent, repliedDocs, overlap, expiredIds, res>>

\* int cursorMaxTimeMS = cursorCache.getMaxTimeMS( id );
GetMoreMaxTime(w) ==
    /\ pc[w] = "maxtime"
    /\ loc' = [loc EXCEPT ![w].maxTime = CacheGetMaxTimeMS(loc[w].id)]
    /\ pc' = [pc EXCEPT ![w] = "check"]
    /\ UNCHANGED <<cursors, cursorsMaxTimeMS, refs, created, totalSent,
                   hint, idleTime, calls, spent, repliedDocs, overlap, expiredIds, res>>

\* the ways getMore ends with an exception instead of a reply
GetMoreFailures == {"InternalInconsistency", "Unauthorized",
                    "ExceededTimeLimit"}

\* the call of getMore ends: an exception, or a reply with docCount documents;
\* audit is the status code logGetMoreAuthzCheck recorded, "none" if it did
\* not run; contacted tells whether conn->callRead (the call ends on the
\* remote path) or cursor->sendNextBatch ran
Return(w, kind, audit, startFrom, docCount, cursorId) ==
    /\ res' = [res EXCEPT ![w] = [op |-> "getMore",
                                  kind |-> kind, id |-> loc[w].id,
                                  audit |-> audit,
                                  frames |-> IF kind \in GetMoreFailures
                                             THEN 0 ELSE 1,
                                  startFrom |-> startFrom,
                                  docCount |-> docCount,
                                  cursorId |-> cursorId,
                                  contacted |-> \/ loc[w].contacted
                                                \/ pc[w] = "remote"]]
    /\ pc' = [pc EXCEPT ![w] = "idle"]
    /\ loc' = [loc EXCEPT ![w] = IdleLoc]

\* massert 17012, checkAuthForGetMore, and the choice of the path
GetMoreCheck(w, authOk) ==
    /\ pc[w] = "check"
    /\ IF ~CursorIdNotDuplicated(CacheGet(loc[w].id), loc[w].host)
       THEN Return(w, "InternalInconsistency", "none", 0, 0, 0)
       ELSE IF ~authOk
       THEN Return(w, "Unauthorized", "Unauthorized", 0, 0, 0)
       ELSE IF loc[w].host
       THEN /\ pc' = [pc EXCEPT ![w] = "remote"]
            /\ loc' = [loc EXCEPT ![w].audit = "OK"]
            /\ UNCHANGED res
       ELSE IF loc[w].cursor
       THEN /\ pc' = [pc EXCEPT ![w] = "merged"]
            /\ loc' = [loc EXCEPT ![w].audit = "OK"]
            /\ UNCHANGED res
       ELSE Return(w, "CursorNotFound", "OK", 0, 0, 0)
    /\ UNCHANGED <<cursors, cursorsMaxTimeMS, refs, created, totalSent,
                   hint, idleTime, calls, spent, repliedDocs, overlap, expiredIds>>

\* the remote-passthrough path: callRead, removeRef when the shard is done
GetMoreRemote(w, shardHasMore) ==
    /\ pc[w] = "remote"
    /\ refs' = IF shardHasMore THEN refs ELSE refs \ {loc[w].id}
    /\ Return(w, "remote", loc[w].audit, 0, 0, IF shardHasMore THEN loc[w].id ELSE 0)
    /\ UNCHANGED <<cursors, cursorsMaxTimeMS, created, totalSent,
                   hint, idleTime, calls, spent, repliedDocs, overlap, expiredIds>>

\* the merged path: the expiry test, then startFrom = cursor->getTotalSent()
GetMoreExpiry(w) ==
    /\ pc[w] = "merged"
    /\ IF TimeLimitExpired(loc[w].maxTime)
       THEN /\ cursors' = cursors \ {loc[w].id}
            /\ cursorsMaxTimeMS' = MapDel(cursorsMaxTimeMS, loc[w].id)
            /\ expiredIds' = expiredIds \cup {loc[w].id}
            /\ Return(w, "ExceededTimeLimit", loc[w].audit, 0, 0, 0)
       ELSE /\ loc' = [loc EXCEPT ![w].startFrom = totalSent[loc[w].id]]
            /\ pc' = [pc EXCEPT ![w] = "send"]
            /\ UNCHANGED <<cursors, cursorsMaxTimeMS, expiredIds, res>>
    /\ UNCHANGED <<refs, created, totalSent, hint, idleTime, calls,
                   spent, repliedDocs, overlap>>

\* cursor->sendNextBatch( r, ntoreturn, buffer, docCount ); two calls racing
\* on one cursor object may work from the offset either of them read
GetMoreSend(w, base) ==
    /\ pc[w] = "send"
    /\ \/ base = totalSent[loc[w].id]
       \/ ~loc[w].alone /\ base = loc[w].startFrom
    /\ LET id == loc[w].id
           docCount == BatchDocCount(base, loc[w].ntoreturn)
       IN  /\ totalSent' = [totalSent EXCEPT ![id] = base + docCount]
           /\ loc' = [loc EXCEPT ![w].base = base, ![w].docCount = docCount,
                                 ![w].hasMore = (base + docCount < MaxDocs),
                                 ![w].contacted = TRUE]
    /\ pc' = [pc EXCEPT ![w] = "update"]
    /\ UNCHANGED <<cursors, cursorsMaxTimeMS, refs, created, hint,
                   idleTime, calls, spent, repliedDocs, overlap, expiredIds, res>>

\* if ( hasMore ) update the budget else remove the cursor; replyToQuery;
\* elapsed is what getMoreTimer.millis() returns
GetMoreFinish(w, elapsed) ==
    /\ pc[w] = "update"
    /\ LET id == loc[w].id
           cursorMaxTimeMS == BudgetOfCall(w)
           cid == ReplyCursorId(loc[w].hasMore, id)
       IN  /\ IF loc[w].hasMore
              THEN IF cursorMaxTimeMS # kMaxTimeCursorNoTimeLimit
                   THEN /\ cursorsMaxTimeMS' =
                              MapPut(cursorsMaxTimeMS, id,
                                 GetMoreLeftoverMillis(cursorMaxTimeMS, elapsed))
                        /\ spent' = [spent EXCEPT ![id] = Spent(@, elapsed)]
                        /\ UNCHANGED cursors
                   ELSE UNCHANGED <<cursors, cursorsMaxTimeMS, spent>>
              ELSE /\ cursors' = cursors \ {id}
                   /\ cursorsMaxTimeMS' = MapDel(cursorsMaxTimeMS, id)
                   /\ UNCHANGED spent
           /\ repliedDocs' = [repliedDocs EXCEPT ![id] = @ + loc[w].docCount]
           /\ Return(w, "batch", loc[w].audit,
                     ReplyStartFrom(loc[w].startFrom, totalSent[id]),
                     loc[w].docCount, cid)
    /\ UNCHANGED <<refs, created, totalSent, hint, idleTime, calls, overlap,
                   expiredIds>>

CursorInit ==
    /\ cursors = {}
    /\ cursorsMaxTimeMS = <<>>
    /\ refs = {}
    /\ created = {}
    /\ totalSent = [i \in Ids |-> 0]
    /\ hint = [i \in Ids |-> 0]
    /\ idleTime = [i \in Ids |-> 0]
    /\ calls = [i \in Ids |-> 0]
    /\ spent = [i \in Ids |-> 0]
    /\ repliedDocs = [i \in Ids |-> 0]
    /\ overlap = [i \in Ids |-> FALSE]
    /\ expiredIds = {}
    /\ pc = [w \in Workers |-> "idle"]
    /\ loc = [w \in Workers |-> IdleLoc]
    /\ res = [w \in Workers |-> NoRes]

\* ========================================================================
\* the requests a client sends on the command path
PingField == Fld("ping", BInt(1))
ReadPrefField ==
    Fld("$readPreference", BObj(<<Fld("mode", BStr(<<"secondary">>))>>))
MaxTimeField == Fld("maxTimeMS", BInt(5))

CommandDocs ==
    {<<>>} \cup
    {<<Fld(nm, v)>> \o tail :
        nm \in {"$query", "query", "ping", "$queryOptions"},
        v \in {BInt(1), BObj(<<PingField>>), BObj(<<PingField, ReadPrefField>>)},
        tail \in {<<>>, <<ReadPrefField>>, <<MaxTimeField, ReadPrefField>>}}

KillOpDocs ==
    {<<>>, <<Fld("op", BInt(7))>>} \cup
    {<<Fld("op", BStr(str))>> : str \in SeqsUpTo(Chars, MaxOperandLen)}

\* what a shard answers to inprog: no inprog field, or an array of entries
InprogOps ==
    {<<Fld("opid", BInt(n)), Fld("client", BStr(<<"c">>)),
       Fld("active", BInt(1))>> : n \in {0, 7, MaxOpid}}
ShardReports ==
    {EOO} \cup
    {BObj([k \in 1..Len(ops) |-> Fld("", BObj(ops[k]))]) :
        ops \in SeqsUpTo(InprogOps, 2)}

QueriesOf(ns) ==
    IF SysCommand(ns) = "killop" THEN KillOpDocs
    ELSE IF SysCommand(ns) = "" THEN CommandDocs
    ELSE {<<>>}

ReportsOf(ns) ==
    IF SysCommand(ns) = "inprog" THEN [1..Len(AllShards) -> ShardReports]
    ELSE {[i \in 1..Len(AllShards) |-> EOO]}

vars == <<cursorVars, cmdVars, writeVars>>

Init == CursorInit /\ CmdInit /\ WriteInit

NextCmd ==
    \/ /\ cmdPc = "idle"
       /\ \E ns \in CmdNamespaces \cup SysNamespaces :
             \E q \in QueriesOf(ns), a \in BOOLEAN, rp \in ReportsOf(ns) :
                CmdStart(ns, q, a, rp)
       /\ UNCHANGED <<cursorVars, writeVars, opidVars>>
    \/ CmdExecOk /\ UNCHANGED <<cursorVars, writeVars, opidVars>>
    \/ \E ens \in StaleNamespaces :
          /\ CmdExecStale(ens)
          /\ UNCHANGED <<cursorVars, writeVars, opidVars>>
    \/ \E x \in OtherExceptions :
          /\ CmdExecThrows(x)
          /\ UNCHANGED <<cursorVars, writeVars, opidVars>>

\* one client: a query, then get-mores one after the other
FirstId == CHOOSE i \in Ids : \A j \in Ids : i <= j
FirstWorker == CHOOSE w \in Workers : TRUE

Next ==
    \/ Idle /\ UNCHANGED <<cmdVars, writeVars>>
    \/ \E k \in QueryFailures :
          /\ QueryOpThrow(FirstWorker, k)
          /\ UNCHANGED <<cmdVars, writeVars>>
    \/ \E cid \in Ids \cup {0} :
          /\ QueryOpIndexes(FirstWorker, cid)
          /\ UNCHANGED <<cmdVars, writeVars>>
    \/ QueryOpExplain(FirstWorker) /\ UNCHANGED <<cmdVars, writeVars>>
    \/ \E m \in 0..MaxTimeMS, e \in 0..MaxElapsed, n \in 1..MaxDocs :
          /\ QueryOpSharded(FirstWorker, FirstId, m, e, n)
          /\ UNCHANGED <<cmdVars, writeVars>>
    \/ \E cid \in Ids \cup {0} :
          /\ QueryOpSingle(FirstWorker, cid)
          /\ UNCHANGED <<cmdVars, writeVars>>
    \/ \E id \in Ids, n \in 1..MaxBatch :
          /\ GetMoreBegin(FirstWorker, id, n)
          /\ UNCHANGED <<cmdVars, writeVars>>
    \/ GetMoreGet(FirstWorker) /\ UNCHANGED <<cmdVars, writeVars>>
    \/ GetMoreMaxTime(FirstWorker) /\ UNCHANGED <<cmdVars, writeVars>>
    \/ \E a \in BOOLEAN : GetMoreCheck(FirstWorker, a) /\ UNCHANGED <<cmdVars, writeVars>>
    \/ \E m \in BOOLEAN : GetMoreRemote(FirstWorker, m) /\ UNCHANGED <<cmdVars, writeVars>>
    \/ GetMoreExpiry(FirstWorker) /\ UNCHANGED <<cmdVars, writeVars>>
    \/ \E b \in 0..MaxDocs : GetMoreSend(FirstWorker, b) /\ UNCHANGED <<cmdVars, writeVars>>
    \/ \E e \in 0..MaxElapsed : GetMoreFinish(FirstWorker, e) /\ UNCHANGED <<cmdVars, writeVars>>

Spec == Init /\ [][Next]_vars

\* two clients whose get-mores run concurrently, on one id or on two
NextConcurrent ==
    \/ \E w \in Workers, id \in Ids, m \in {0, MaxTimeMS} :
          /\ QueryOpSharded(w, id, m, 0, 1)
          /\ UNCHANGED <<cmdVars, writeVars>>
    \/ \E w \in Workers, id \in Ids :
          /\ GetMoreBegin(w, id, 1)
          /\ UNCHANGED <<cmdVars, writeVars>>
    \/ \E w \in Workers :
          /\ GetMoreGet(w)
          /\ UNCHANGED <<cmdVars, writeVars>>
    \/ \E w \in Workers :
          /\ GetMoreMaxTime(w)
          /\ UNCHANGED <<cmdVars, writeVars>>
    \/ \E w \in Workers, a \in BOOLEAN :
          /\ GetMoreCheck(w, a)
          /\ UNCHANGED <<cmdVars, writeVars>>
    \/ \E w \in Workers :
          /\ GetMoreExpiry(w)
          /\ UNCHANGED <<cmdVars, writeVars>>
    \/ \E w \in Workers, b \in 0..MaxDocs :
          /\ GetMoreSend(w, b)
          /\ UNCHANGED <<cmdVars, writeVars>>
    \/ \E w \in Workers, e \in {0, MaxElapsed} :
          /\ GetMoreFinish(w, e)
          /\ UNCHANGED <<cmdVars, writeVars>>

SpecConcurrent == Init /\ [][NextConcurrent]_vars

SpecCmd == Init /\ [][NextCmd]_vars

\* the requests of a client that is or is not authorized: queries and
\* get-mores on merged and remote cursors, and the inprog and killop commands
AuthzNamespaces == {"admin.$cmd.sys.inprog", "admin.$cmd.sys.killop"}

AuthzQueriesOf(ns) ==
    IF SysCommand(ns) = "killop"
    THEN {<<>>, <<Fld("op", BInt(7))>>, <<Fld("op", BStr(<<"a", ":", "7">>))>>}
    ELSE {<<>>}

AuthzReportsOf(ns) ==
    IF SysCommand(ns) = "inprog"
    THEN {[i \in 1..Len(AllShards) |-> EOO],
          [i \in 1..Len(AllShards) |->
              BObj(<<Fld("", BObj(<<Fld("opid", BInt(7))>>))>>)]}
    ELSE {[i \in 1..Len(AllShards) |-> EOO]}

NextAuthz ==
    \/ /\ cmdPc = "idle"
       /\ \E ns \in AuthzNamespaces :
             \E q \in AuthzQueriesOf(ns), a \in BOOLEAN,
                rp \in AuthzReportsOf(ns) :
                CmdStart(ns, q, a, rp)
       /\ UNCHANGED <<cursorVars, writeVars, opidVars>>
    \/ \E k \in QueryFailures :
          /\ QueryOpThrow(FirstWorker, k)
          /\ UNCHANGED <<cmdVars, writeVars>>
    \/ \E m \in {0, MaxTimeMS} :
          /\ QueryOpSharded(FirstWorker, FirstId, m, 0, 1)
          /\ UNCHANGED <<cmdVars, writeVars>>
    \/ \E cid \in Ids \cup {0} :
          /\ QueryOpSingle(FirstWorker, cid)
          /\ UNCHANGED <<cmdVars, writeVars>>
    \/ \E id \in Ids :
          /\ GetMoreBegin(FirstWorker, id, 1)
          /\ UNCHANGED <<cmdVars, writeVars>>
    \/ GetMoreGet(FirstWorker) /\ UNCHANGED <<cmdVars, writeVars>>
    \/ GetMoreMaxTime(FirstWorker) /\ UNCHANGED <<cmdVars, writeVars>>
    \/ \E a \in BOOLEAN :
          /\ GetMoreCheck(FirstWorker, a)
          /\ UNCHANGED <<cmdVars, writeVars>>
    \/ \E m \in BOOLEAN :
          /\ GetMoreRemote(FirstWorker, m)
          /\ UNCHANGED <<cmdVars, writeVars>>
    \/ GetMoreExpiry(FirstWorker) /\ UNCHANGED <<cmdVars, writeVars>>
    \/ \E b \in 0..MaxDocs :
          /\ GetMoreSend(FirstWorker, b)
          /\ UNCHANGED <<cmdVars, writeVars>>
    \/ \E e \in 0..MaxElapsed :
          /\ GetMoreFinish(FirstWorker, e)
          /\ UNCHANGED <<cmdVars, writeVars>>

SpecAuthz == Init /\ [][NextAuthz]_vars

\* an operation id listed by inprog is handed to killop
NextOpid ==
    \/ /\ opPc = "idle"
       /\ \E names \in [1..2 -> ShardNames], opid \in Opids :
             OpidList(names, opid)
       /\ UNCHANGED <<cursorVars, writeVars, cmdPc, cmdNs, cmdQuery,
                      cmdAudit, cmdShardCalls, sysReply, loops, execHist,
                      refreshed, refreshLog, connCheckLog, cmdReplies,
                      cmdThrown>>
    \/ \E i \in 1..2 :
          /\ OpidKill(i)
          /\ UNCHANGED <<cursorVars, writeVars, cmdPc, cmdNs, cmdQuery,
                         cmdAudit, cmdShardCalls, sysReply, loops, execHist,
                         refreshed, refreshLog, connCheckLog, cmdReplies,
                         cmdThrown>>

SpecOpid == Init /\ [][NextOpid]_vars

NextWrite ==
    \/ \E reqs \in RequestBatches, ins \in BOOLEAN :
          WriteStart(reqs, ins) /\ UNCHANGED <<cursorVars, cmdVars>>
    \/ WriteBeginRequest /\ UNCHANGED <<cursorVars, cmdVars>>
    \/ \E o \in WriteOutcomes, n \in 0..1 :
          WriteFinishRequest(o, n) /\ UNCHANGED <<cursorVars, cmdVars>>
    \/ WriteThrow /\ UNCHANGED <<cursorVars, cmdVars>>

SpecWrite == Init /\ [][NextWrite]_vars

\* ========================================================================
\* Properties of Strategy::clientCommandOp (checked under SpecCmd)
\* ========================================================================
AllStale == \A i \in 1..Len(execHist) : execHist[i].outcome = "stale"

\* C1 as stated: under persistent staleness the command is executed exactly
\* 5 times and then the staleness error is re-raised without a reply.
C1_FiveExecutionsThenRethrow ==
    cmdThrown = "StaleConfigException" =>
        /\ Len(execHist) = 5
        /\ AllStale
        /\ cmdReplies = <<>>

\* C1 amended: under persistent staleness the command is executed exactly
\* 6 times (the first attempt and 5 retries); only then, and with no reply
\* sent, the staleness error is re-raised to the caller.
C1_SixExecutionsThenRethrow ==
    /\ cmdThrown = "StaleConfigException" =>
          /\ Len(execHist) = 6
          /\ AllStale
          /\ cmdReplies = <<>>
    /\ (cmdPc = "loop" /\ AllStale) =>
          /\ Len(execHist) < 6
          /\ cmdReplies = <<>>

C1_Witness ==
    /\ cmdThrown = "StaleConfigException"
    /\ Len(execHist) = 6
    /\ AllStale

\* C2: when every execution signals staleness, exactly 4 forced refreshes
\* (forceRemoteCheckShardVersionCB) are done before the error is re-raised,
\* each on the stale namespace of the exception that caused it.
C2_FourForcedRefreshes ==
    /\ cmdThrown = "StaleConfigException" =>
          /\ Len(refreshLog) = 4
          /\ refreshLog = SubSeq(connCheckLog, 2, Len(connCheckLog))
    /\ Len(refreshLog) <= 4

C2_Witness ==
    /\ cmdThrown = "StaleConfigException"
    /\ Len(refreshLog) = 4
    /\ refreshLog[1] # refreshLog[4]

\* C3 as stated: a retry is preceded by a forced refresh if and only if it
\* is not the very last allowed attempt (the one whose staleness is
\* re-raised).
C3_RefreshExceptBeforeLast ==
    \A i \in 2..Len(execHist) :
        execHist[i].refreshed <=> ~(execHist[i].loops <= 0)

\* C3 amended: a retry is preceded by a forced refresh if and only if it is
\* not the first retry: the first retry follows checkMyConnectionVersions
\* only, every later retry, the last allowed one included, follows a forced
\* refresh; the first attempt follows none.
C3_RefreshExceptBeforeFirstRetry ==
    \A i \in 1..Len(execHist) : execHist[i].refreshed <=> i > 2

C3_Witness ==
    /\ Len(execHist) = 6
    /\ ~execHist[2].refreshed
    /\ execHist[6].refreshed
    /\ execHist[6].loops = 0

\* C14: an authorized kill operation whose operand is a string with a colon
\* contacts exactly one shard, the one named by what precedes the first
\* colon, with the number written after that colon as the opid, and replies
\* without an err field; an operand that is no string or has no colon gets a
\* reply with an err field and no shard is contacted.
C14_KillOpSplitsOnFirstColon ==
    (cmdPc = "replied" /\ SysCommand(cmdNs) = "killop")
    => LET v == GetField(cmdQuery, "op").val
       IN  /\ cmdReplies = <<"sys">>
           /\ IF v.t = "string" /\ \E k \in 1..Len(v.s) : v.s[k] = ":"
              THEN \E k \in 1..Len(v.s) :
                      /\ v.s[k] = ":"
                      /\ \A j \in 1..(k - 1) : v.s[j] # ":"
                      /\ Len(cmdShardCalls) = 1
                      /\ cmdShardCalls[1].what = "killop"
                      /\ cmdShardCalls[1].shard = SubSeq(v.s, 1, k - 1)
                      /\ \A n \in 0..MaxOpid :
                            SubSeq(v.s, k + 1, Len(v.s)) = ToDecimal(n)
                            => cmdShardCalls[1].opid = n
                      /\ ~HasField(sysReply, "err")
              ELSE /\ cmdShardCalls = <<>>
                   /\ HasField(sysReply, "err")

C14_Witness ==
    /\ cmdPc = "replied"
    /\ SysCommand(cmdNs) = "killop"
    /\ GetField(cmdQuery, "op").val = BStr(<<"a", ":", "7", "0">>)
    /\ cmdShardCalls = <<[shard |-> <<"a">>, what |-> "killop", opid |-> 70]>>
    /\ cmdAudit = [check |-> "killop", code |-> "OK"]

\* the command a wrapped or plain command document stands for
UnwrappedCommand(q) ==
    IF Len(q) > 0 /\ q[1].name \in {"query", "$query"} /\ q[1].val.t = "object"
    THEN q[1].val.o \o
         (IF \E k \in 1..Len(q) : q[k].name = "$readPreference"
          THEN <<Fld("$queryOptions",
                     BObj(<<q[CHOOSE k \in 1..Len(q) :
                               /\ q[k].name = "$readPreference"
                               /\ \A j \in 1..(k - 1) :
                                     q[j].name # "$readPreference"]>>))>>
          ELSE <<>>)
    ELSE q

\* C15: every execution of a command, the retries included, runs the fields
\* of the embedded object of a leading "query" or "$query" object field,
\* followed by $queryOptions holding the wrapper's $readPreference when the
\* wrapper has one, and runs the document unchanged when it has no such
\* leading field; { $query: { ping: 1 }, $readPreference: rp } runs as
\* { ping: 1, $queryOptions: { $readPreference: rp } }.
C15_WrappedCommandIsUnwrapped ==
    \A i \in 1..Len(execHist) :
        /\ execHist[i].cmd = UnwrappedCommand(cmdQuery)
        /\ cmdQuery = <<Fld("$query", BObj(<<PingField>>)), ReadPrefField>>
             => execHist[i].cmd =
                  <<PingField, Fld("$queryOptions", BObj(<<ReadPrefField>>))>>

C15_Witness ==
    /\ Len(execHist) >= 2
    /\ cmdQuery = <<Fld("$query", BObj(<<PingField>>)), ReadPrefField>>
    /\ execHist[2].cmd =
          <<PingField, Fld("$queryOptions", BObj(<<ReadPrefField>>))>>
    /\ execHist[1].outcome = "stale"

\* C16 as stated: an exception other than staleness raised by an execution
\* ends the call with exactly one reply, the error document; the command is
\* not run again and nothing propagates to the caller.
C16_OtherExceptionsAnswered ==
    \A i \in 1..Len(execHist) :
        execHist[i].outcome \notin {"ok", "stale"}
        => /\ i = Len(execHist)
           /\ cmdPc = "replied"
           /\ cmdReplies = <<"errdoc">>
           /\ cmdThrown = "none"

\* C16: an AssertionException other than staleness raised by an execution,
\* the first or a retry, ends the call with exactly one reply, the error
\* document, with no further execution and nothing propagated; an exception
\* of another class is not caught: it leaves clientCommandOp with no reply.
C16_AssertionExceptionsAnswered ==
    \A i \in 1..Len(execHist) :
        /\ execHist[i].outcome \notin {"ok", "stale"} => i = Len(execHist)
        /\ execHist[i].outcome = "AssertionException"
             => /\ cmdPc = "replied"
                /\ cmdReplies = <<"errdoc">>
                /\ cmdThrown = "none"
        /\ execHist[i].outcome \notin {"ok", "stale", "AssertionException"}
             => /\ cmdPc = "thrown"
                /\ cmdReplies = <<>>
                /\ cmdThrown = execHist[i].outcome

C16_Witness ==
    /\ Len(execHist) = 3
    /\ execHist[1].outcome = "stale"
    /\ execHist[2].outcome = "stale"
    /\ execHist[3].outcome = "AssertionException"
    /\ cmdPc = "replied"
    /\ cmdReplies = <<"errdoc">>

\* C17 as stated: on the command path, the reserved diagnostic namespaces
\* included, an authorization or argument error is answered with a reply that
\* embeds the error and never leaves clientCommandOp as an exception.
C17_CommandErrorsAlwaysReplied ==
    /\ cmdThrown # "Unauthorized"
    /\ cmdAudit.code = "Unauthorized"
         => (cmdPc = "replied" /\ HasField(sysReply, "err"))
    /\ (cmdPc = "replied" /\ SysCommand(cmdNs) = "killop"
          /\ GetField(cmdQuery, "op").val.t # "string")
         => HasField(sysReply, "err")

\* ========================================================================
\* Properties of Strategy::writeOp (checked under SpecWrite)
\* ========================================================================
StoppedBefore(j) ==
    \E i \in 1..(j - 1) :
        /\ i <= Len(wOutcome)
        /\ requests[i].ordered
        /\ wOutcome[i] = "writeError"

\* C4: sub-requests are executed in order, and sub-request j is executed if
\* and only if no earlier sub-request was ordered and reported a
\* non-write-concern error (writeOp having run to its end without an
\* exception for the "if" direction).
C4_OrderedStopsUnorderedContinues ==
    /\ \A j \in 1..Len(wExecuted) : wExecuted[j] = j /\ ~StoppedBefore(j)
    /\ wPc = "done" =>
          \A j \in 1..Len(requests) :
              j > Len(wExecuted) => StoppedBefore(j)

C4_Witness ==
    /\ wPc = "done"
    /\ Len(requests) = 3
    /\ Len(wExecuted) = 2
    /\ ~requests[1].ordered /\ wOutcome[1] = "writeError"
    /\ requests[2].ordered /\ wOutcome[2] = "writeError"

\* the sub-requests whose command execution returned a response
Completed == {j \in 1..Len(wOutcome) : wOutcome[j] # "throw"}

\* C21: the legacy last-error tracking is disabled exactly while a
\* sub-request's command is executing and is enabled again afterwards, also
\* when the execution raises; once a sub-request's execution has returned,
\* the last-error state holds that sub-request's response and nothing
\* else, so when writeOp returns it holds the response of the last
\* sub-request that was executed and nothing of a skipped or an earlier
\* one, nor of the operation before.
C21_LastErrorFollowsLastExecuted ==
    /\ lastErrorDisabled <=> (wPc = "running")
    /\ Completed = {} => lastErrorState = PriorLastError
    /\ Completed # {} =>
          LET j == CHOOSE k \in Completed : \A m \in Completed : m <= k
          IN  lastErrorState = {[from |-> j, outcome |-> wOutcome[j]]}
    /\ wPc = "done" =>
          /\ wExecuted # <<>>
          /\ lastErrorState =
                {[from |-> wExecuted[Len(wExecuted)],
                  outcome |-> wOutcome[Len(wOutcome)]]}
          /\ \A e \in lastErrorState : e.from <= Len(wExecuted)

\* an ordered stop after the second of three sub-requests: the state is the
\* second one's, the first one's (a write-concern error) is gone
C21_Witness ==
    /\ wPc = "done"
    /\ ~lastErrorDisabled
    /\ Len(requests) = 3
    /\ Len(wExecuted) = 2
    /\ wOutcome = <<"wcError", "writeError">>
    /\ lastErrorState = {[from |-> 2, outcome |-> "writeError"]}

\* ========================================================================
\* Properties of Strategy::queryOp and Strategy::getMore, one client (Spec)
\* ========================================================================
\* the step by which worker w leaves position p
Leaves(w, p) == pc[w] = p /\ pc'[w] # p

\* a get-more on an id evicted for expiry that passes the checks and has no
\* remote reference replies "cursor not found" with no document
NotFoundAfterExpiry(w) ==
    (/\ Leaves(w, "check")
     /\ loc[w].id \in expiredIds
     /\ ~loc[w].host
     /\ res'[w].kind # "Unauthorized")
    => res'[w] = [op |-> "getMore", kind |-> "CursorNotFound",
                  id |-> loc[w].id, audit |-> "OK", frames |-> 1,
                  startFrom |-> 0, docCount |-> 0, cursorId |-> 0,
                  contacted |-> FALSE]

\* C5: on the merged path, a stored budget equal to the "already expired"
\* sentinel makes getMore evict the entry and fail with ExceededTimeLimit
\* before anything is fetched (no sendNextBatch, totalDocsSent unchanged, no
\* reply); the next get-more on the id replies "cursor not found", 0 docs.
C5_ExpiredEvictsBeforeFetch ==
    [][\A w \in Workers :
         /\ (/\ Leaves(w, "merged")
             /\ loc[w].id \in DOMAIN cursorsMaxTimeMS
             /\ cursorsMaxTimeMS[loc[w].id] = kMaxTimeCursorTimeLimitExpired)
            => /\ pc'[w] = "idle"
               /\ res'[w].kind = "ExceededTimeLimit"
               /\ res'[w].docCount = 0
               /\ loc[w].id \notin cursors'
               /\ loc[w].id \notin DOMAIN cursorsMaxTimeMS'
               /\ totalSent' = totalSent
               /\ repliedDocs' = repliedDocs
         /\ NotFoundAfterExpiry(w)]_vars

C5_Witness ==
    \E w \in Workers :
        /\ res[w].kind = "CursorNotFound"
        /\ res[w].id \in expiredIds
        /\ res[w].id \notin cursors

\* C6 as stated: a get-more issued on a cached merged cursor once its finite
\* duration hint has elapsed since the query, time between the requests
\* counted (here: the time between the requests alone reaches the hint),
\* fails with ExceededTimeLimit.
C6_ExpiresAfterWallClockDuration ==
    [][\A w \in Workers :
         (/\ Leaves(w, "merged")
          /\ hint[loc[w].id] > 0
          /\ idleTime[loc[w].id] >= hint[loc[w].id])
         => res'[w].kind = "ExceededTimeLimit"]_vars

\* C6 amended: for a merged cursor stored with a finite hint and advanced by
\* non-concurrent get-mores, a get-more fails with ExceededTimeLimit and
\* evicts the entry exactly when the router-side times measured inside the
\* query and the earlier get-mores (not the time between the requests) add
\* up to the hint or more; a later get-more on the id is "cursor not found".
C6_ExpiresAfterRouterSideDuration ==
    [][\A w \in Workers :
         /\ (Leaves(w, "merged") /\ hint[loc[w].id] > 0)
            => /\ res'[w].kind = "ExceededTimeLimit"
                    <=> spent[loc[w].id] >= hint[loc[w].id]
               /\ res'[w].kind = "ExceededTimeLimit"
                    => loc[w].id \notin cursors'
         /\ NotFoundAfterExpiry(w)
         /\ \A i \in cursors' :
               (hint'[i] > 0 /\ \A v \in Workers : pc'[v] = "idle")
               => cursorsMaxTimeMS'[i] =
                     IF spent'[i] >= hint'[i]
                     THEN kMaxTimeCursorTimeLimitExpired
                     ELSE hint'[i] - spent'[i]]_vars

C6_Witness ==
    \E w \in Workers :
        /\ res[w].kind = "ExceededTimeLimit"
        /\ hint[res[w].id] > 0
        /\ spent[res[w].id] >= hint[res[w].id]
        /\ calls[res[w].id] = 2
        /\ idleTime[res[w].id] = 0

\* C7: a merged cursor stored with no duration hint never fails with
\* ExceededTimeLimit, whatever the delays between its get-mores and the time
\* spent inside them, and its stored budget is "no limit" while it is cached.
C7_NoHintNeverExpires ==
    /\ \A w \in Workers :
          res[w].kind = "ExceededTimeLimit" => hint[res[w].id] # 0
    /\ \A i \in cursors :
          hint[i] = 0 =>
              /\ i \in DOMAIN cursorsMaxTimeMS
              /\ cursorsMaxTimeMS[i] = kMaxTimeCursorNoTimeLimit
    /\ \A i \in expiredIds : hint[i] # 0

C7_Witness ==
    \E w \in Workers :
        /\ res[w].kind = "batch"
        /\ res[w].cursorId # 0
        /\ hint[res[w].id] = 0
        /\ idleTime[res[w].id] >= MaxTimeMS
        /\ res[w].id \in cursors

\* C8: for a merged cursor whose get-mores never ran concurrently, between
\* the calls totalDocsSent is the sum of the document counts of the replies
\* sent for it, each reply starts at the sum of the counts of the earlier
\* replies, and its documents are the ones right after those already served
\* (no document is served twice).
C8_RepliesAddUpToTotalSent ==
    [][\A i \in created' :
         /\ (~overlap'[i] /\ \A w \in Workers : ~(pc'[w] # "idle" /\ loc'[w].id = i))
            => totalSent'[i] = repliedDocs'[i]
         /\ \A w \in Workers :
               (Leaves(w, "update") /\ loc[w].id = i /\ ~overlap[i])
               => /\ res'[w].startFrom = repliedDocs[i]
                  /\ loc[w].base = repliedDocs[i]
                  /\ res'[w].docCount = repliedDocs'[i] - repliedDocs[i]
                  /\ repliedDocs'[i] <= MaxDocs]_vars

C8_Witness ==
    \E w \in Workers :
        /\ res[w].kind = "batch"
        /\ res[w].startFrom = 2
        /\ res[w].docCount = 1
        /\ calls[res[w].id] = 2
        /\ totalSent[res[w].id] = 3
        /\ repliedDocs[res[w].id] = 3

\* a queryOp call by worker w has just ended
QueryDone(w) ==
    pc[w] = "idle" /\ pc'[w] = "idle" /\ res'[w] # res[w] /\ res'[w].op = "query"

\* number of cursor cache entries, merged or remote, the step creates
EntriesCreated ==
    Cardinality(cursors' \ cursors) + Cardinality(refs' \ refs)

\* C12 as stated: a queryOp call that ends without an error sends exactly one
\* reply frame and creates at most one cursor cache entry, and creates one
\* only on the multi-shard path when more data remains after the first batch.
C12_EntryOnlyOnMultiShardPath ==
    [][\A w \in Workers :
         (QueryDone(w) /\ res'[w].kind \notin QueryFailures)
         => /\ res'[w].frames = 1
            /\ EntriesCreated <= 1
            /\ EntriesCreated = 1
                 => (res'[w].kind = "batch" /\ res'[w].docCount < MaxDocs)]_vars

\* C12: a queryOp call that ends without an error sends exactly one reply
\* frame, removes no cache entry and creates at most one; a merged entry is
\* created exactly on the multi-shard path when more data remains after the
\* first batch; the explain path creates no entry; the single-shard and
\* list-indexes paths create no merged entry but store a remote reference
\* exactly when the relayed shard reply carries a cursor id other than 0.
C12_MergedEntryOnlyOnMultiShardPath ==
    [][\A w \in Workers :
         (QueryDone(w) /\ res'[w].kind \notin QueryFailures)
         => /\ res'[w].frames = 1
            /\ EntriesCreated <= 1
            /\ cursors \subseteq cursors' /\ refs \subseteq refs'
            /\ cursors' # cursors
                 <=> (res'[w].kind = "batch" /\ res'[w].docCount < MaxDocs)
            /\ cursors' # cursors => cursors' = cursors \cup {res'[w].cursorId}
            /\ res'[w].kind = "explain" => EntriesCreated = 0
            /\ res'[w].kind = "batch" => refs' = refs
            /\ res'[w].kind \in {"single", "indexes"}
                 => /\ refs' # refs <=> res'[w].cursorId # 0
                    /\ refs' = refs \cup ({res'[w].cursorId} \ {0})]_vars

C12_Witness ==
    \E w \in Workers :
        /\ res[w].op = "query"
        /\ res[w].kind = "single"
        /\ res[w].cursorId # 0
        /\ res[w].cursorId \in refs
        /\ res[w].cursorId \notin cursors
        /\ cursors # {}

\* C13: the budget queryOp stores with a merged cursor is "no limit" when the
\* hint is 0, the hint minus the router-side time of the query when that is
\* positive, and the "already expired" sentinel otherwise; it is never a
\* non-positive number other than the two sentinels.
C13_StoredBudgetOfQuery ==
    [][\A w \in Workers :
         (QueryDone(w) /\ cursors' # cursors)
         => LET id == res'[w].cursorId
                stored == cursorsMaxTimeMS'[id]
            IN  /\ id \in cursors' \ cursors
                /\ stored =
                      IF hint'[id] = 0 THEN kMaxTimeCursorNoTimeLimit
                      ELSE IF hint'[id] - spent'[id] > 0
                           THEN hint'[id] - spent'[id]
                      ELSE kMaxTimeCursorTimeLimitExpired
                /\ stored <= 0
                     => stored \in {kMaxTimeCursorNoTimeLimit,
                                    kMaxTimeCursorTimeLimitExpired}]_vars

C13_Witness ==
    \E w \in Workers :
        /\ res[w].op = "query"
        /\ res[w].kind = "batch"
        /\ res[w].cursorId \in cursors
        /\ hint[res[w].cursorId] > 0
        /\ spent[res[w].cursorId] >= hint[res[w].cursorId]
        /\ cursorsMaxTimeMS[res[w].cursorId] = kMaxTimeCursorTimeLimitExpired

\* C11: a get-more whose id resolves both as a remote reference and as a
\* merged cursor ends with the internal-inconsistency failure, and only such
\* a get-more does; it ends there before the authorization check ran (nothing
\* was audited), without going on to the remote or the merged path (no shard
\* is contacted, none of the two is picked), and no step of the call up to
\* there changes the cursor cache or a cursor's offset.
C11_DuplicateIdAbortsFirst ==
    [][\A w \in Workers :
         /\ Leaves(w, "check")
            => /\ (loc[w].host /\ CacheGet(loc[w].id))
                    <=> res'[w].kind = "InternalInconsistency"
               /\ res'[w].kind = "InternalInconsistency"
                    => /\ pc'[w] = "idle"
                       /\ res'[w].audit = "none"
                       /\ res'[w].docCount = 0
         /\ (pc[w] \in {"idle", "get", "maxtime", "check"} /\ pc'[w] # pc[w])
            => UNCHANGED <<cursors, cursorsMaxTimeMS, refs, totalSent>>]_vars

C11_Witness ==
    \E w \in Workers :
        /\ res[w].kind = "InternalInconsistency"
        /\ res[w].id \in cursors
        /\ res[w].id \in refs
        /\ res[w].audit = "none"

\* C18: a stored budget is always "no limit", "already expired" or strictly
\* positive; while the entry stays in the cache, and its get-mores come one
\* after the other, a finite budget never grows and never becomes "no
\* limit", and an expired one is never changed.
C18_BudgetOnlyShrinks ==
    [][/\ \A i \in cursors' :
             \/ cursorsMaxTimeMS'[i] = kMaxTimeCursorNoTimeLimit
             \/ cursorsMaxTimeMS'[i] = kMaxTimeCursorTimeLimitExpired
             \/ cursorsMaxTimeMS'[i] > 0
       /\ \A i \in {j \in cursors \cap cursors' : ~overlap'[j]} :
             /\ cursorsMaxTimeMS[i] > 0
                  => /\ cursorsMaxTimeMS'[i] # kMaxTimeCursorNoTimeLimit
                     /\ cursorsMaxTimeMS'[i] <= cursorsMaxTimeMS[i]
             /\ cursorsMaxTimeMS[i] = kMaxTimeCursorTimeLimitExpired
                  => cursorsMaxTimeMS'[i] = kMaxTimeCursorTimeLimitExpired]_vars

C18_Witness ==
    \E i \in cursors :
        /\ calls[i] >= 1
        /\ cursorsMaxTimeMS[i] > 0
        /\ cursorsMaxTimeMS[i] < hint[i]
        /\ repliedDocs[i] >= 2

\* C19: a get-more, not overlapping another on its id, on a merged cursor
\* whose stored budget is not the expired sentinel goes on to fetch and always replies with its batch, however long
\* the call takes; when the time measured for the cursor has then reached its
\* hint and more data remains, the stored budget is the expired sentinel and
\* the get-more that finds it there fails with ExceededTimeLimit; a cursor
\* exhausted by the call is removed and ExceededTimeLimit is never raised
\* for an exhausted cursor.
C19_ExpiryOnlyAtStart ==
    [][/\ \A w \in {v \in Workers : loc[v].id \in Ids /\ ~overlap[loc[v].id]} :
             /\ (Leaves(w, "merged") /\ loc[w].id \in cursors)
                  => IF cursorsMaxTimeMS[loc[w].id]
                           = kMaxTimeCursorTimeLimitExpired
                     THEN res'[w].kind = "ExceededTimeLimit"
                     ELSE pc'[w] = "send"
             /\ Leaves(w, "send") => pc'[w] = "update"
             /\ Leaves(w, "update")
                  => /\ res'[w].kind = "batch"
                     /\ res'[w].frames = 1
                     /\ res'[w].docCount =
                           BatchDocCount(loc[w].snapTotal, loc[w].ntoreturn)
                     /\ (res'[w].cursorId # 0 /\ hint[loc[w].id] > 0
                           /\ spent'[loc[w].id] >= hint[loc[w].id])
                          => cursorsMaxTimeMS'[loc[w].id]
                                = kMaxTimeCursorTimeLimitExpired
                     /\ res'[w].cursorId = 0
                          => /\ loc[w].id \notin cursors'
                             /\ loc[w].id \notin expiredIds'
       /\ \A i \in expiredIds' : ~overlap'[i] => totalSent'[i] < MaxDocs]_vars

C19_Witness ==
    \E w \in Workers :
        /\ res[w].op = "getMore"
        /\ res[w].kind = "ExceededTimeLimit"
        /\ calls[res[w].id] = 2
        /\ repliedDocs[res[w].id] = 2
        /\ totalSent[res[w].id] = 2

\* C20: the reply of a queryOp or of a getMore on the merged path (not
\* overlapping another get-more on its id) carries the
\* cursor's id exactly when the cache still holds the cursor and 0 exactly
\* when it does not; on the remote path the reference is removed exactly when
\* the shard's reply carries cursor id 0.
C20_ReplyIdIffStillCached ==
    [][\A w \in Workers :
         /\ ((QueryDone(w) /\ res'[w].kind = "batch")
               \/ (Leaves(w, "update") /\ ~overlap[loc[w].id]))
              => /\ res'[w].cursorId \in {0, res'[w].id}
                 /\ res'[w].cursorId = res'[w].id <=> res'[w].id \in cursors'
                 /\ res'[w].cursorId = 0 <=> res'[w].id \notin cursors'
         /\ Leaves(w, "remote")
              => /\ res'[w].cursorId = 0 <=> loc[w].id \notin refs'
                 /\ refs' = IF res'[w].cursorId = 0
                            THEN refs \ {loc[w].id} ELSE refs]_vars

C20_Witness ==
    /\ \E w \in Workers :
          /\ res[w].op = "getMore"
          /\ res[w].kind = "batch"
          /\ res[w].cursorId = 0
          /\ res[w].docCount > 0
          /\ res[w].id \notin cursors
          /\ res[w].id \in created
    /\ refs # {}

\* ========================================================================
\* Properties of concurrent get-mores (SpecConcurrent)
\* ========================================================================
\* the budget a get-more leaves for a cursor that has more data
BudgetAfter(budget, elapsed) ==
    IF budget = kMaxTimeCursorNoTimeLimit THEN kMaxTimeCursorNoTimeLimit
    ELSE IF budget - elapsed <= 0 THEN kMaxTimeCursorTimeLimitExpired
    ELSE budget - elapsed

\* C9: a get-more on a cached merged cursor that no other get-more on the
\* same id overlaps leaves the cursor's totalDocsSent, stored budget and
\* cache presence as if it had run alone from the state it found, whatever
\* get-mores on other ids run at the same time.
C9_DistinctIdsDoNotInterfere ==
    [][\A w \in Workers :
         LET i == loc[w].id
             n == IF MaxDocs - loc[w].snapTotal < loc[w].ntoreturn
                  THEN MaxDocs - loc[w].snapTotal ELSE loc[w].ntoreturn
             expired == loc[w].snapMaxTime = kMaxTimeCursorTimeLimitExpired
         IN  (InFlight(w) /\ loc[w].alone /\ loc[w].snapCached /\ ~loc[w].host)
             => /\ Leaves(w, "check") =>
                      \/ pc'[w] = "merged"
                      \/ res'[w].kind = "Unauthorized"
                /\ Leaves(w, "merged") =>
                      IF expired
                      THEN /\ pc'[w] = "idle"
                           /\ i \notin cursors'
                           /\ totalSent'[i] = loc[w].snapTotal
                      ELSE pc'[w] = "send"
                /\ Leaves(w, "update") =>
                      /\ ~expired
                      /\ totalSent'[i] = loc[w].snapTotal + n
                      /\ res'[w].docCount = n
                      /\ IF loc[w].snapTotal + n < MaxDocs
                         THEN /\ i \in cursors'
                              /\ \E e \in 0..MaxElapsed :
                                    /\ cursorsMaxTimeMS'[i] =
                                          BudgetAfter(loc[w].snapMaxTime, e)
                                    /\ loc[w].snapMaxTime > 0 =>
                                          spent'[i] = Spent(spent[i], e)
                         ELSE /\ i \notin cursors'
                              /\ i \notin DOMAIN cursorsMaxTimeMS'
                /\ (pc'[w] = pc[w] /\ pc[w] \in {"merged", "send"}) =>
                      /\ totalSent'[i] = totalSent[i]
                      /\ (i \in cursors') = (i \in cursors)
                      /\ CacheGetMaxTimeMS(i)' = CacheGetMaxTimeMS(i)]_vars

C9_Witness ==
    \E w, v \in Workers :
        /\ pc[w] = "update" /\ pc[v] = "update"
        /\ loc[w].id # loc[v].id
        /\ loc[w].alone /\ loc[v].alone
        /\ loc[w].maxTime > 0
        /\ loc[v].maxTime > 0

\* C10: a merged cursor id is advanced by one get-more at a time: two
\* get-mores on one id are never both between the budget lookup and the
\* reply, no two of them send documents from the same offset, and no budget
\* is stored for an id that is not in the cache.
C10_OneGetMorePerCursorAtATime ==
    /\ \A w, v \in Workers :
          (w # v /\ pc[w] \in {"merged", "send", "update"}
                 /\ pc[v] \in {"merged", "send", "update"})
          => loc[w].id # loc[v].id
    /\ \A w, v \in Workers :
          (w # v /\ pc[w] = "update" /\ pc[v] = "update"
                 /\ loc[w].id = loc[v].id /\ loc[w].docCount > 0)
          => loc[w].base # loc[v].base
    /\ DOMAIN cursorsMaxTimeMS \subseteq cursors

\* ========================================================================
\* Properties of the authorization checks (checked under SpecAuthz)
\* ========================================================================
\* what the Cursor Cache holds: the merged entries and their budgets, the
\* remote references, and how far each merged cursor has advanced
cacheState == <<cursors, cursorsMaxTimeMS, refs, totalSent>>

\* C22: a denial in queryOp, getMore or the inprog and killop branches of
\* handleSpecialNamespaces has been audited as Unauthorized when the
\* failure leaves the function; the denied operation has contacted no
\* shard and sent no reply frame, and none of its steps has changed the
\* Cursor Cache (a get-more changes nothing before its authorization
\* check).
C22_DenialAuditedAndWithoutEffect ==
    [][/\ \A w \in Workers :
            (res'[w] # res[w] /\ res'[w].kind = "Unauthorized") =>
               /\ res'[w].audit = "Unauthorized"
               /\ ~res'[w].contacted
               /\ res'[w].frames = 0
               /\ UNCHANGED cacheState
       /\ \A w \in Workers :
            pc'[w] \in {"get", "maxtime", "check"} => UNCHANGED cacheState
       /\ (cmdPc = "idle" /\ cmdThrown' = "Unauthorized") =>
               /\ cmdPc' = "thrown"
               /\ cmdAudit' = [check |-> SysCommand(cmdNs'),
                               code |-> "Unauthorized"]
               /\ cmdShardCalls' = <<>>
               /\ sysReply' = <<>>
               /\ cmdReplies' = cmdReplies
               /\ UNCHANGED cacheState]_vars

\* a get-more and a killop both denied while the cache holds a merged entry
\* and a remote reference
C22_Witness ==
    /\ res[FirstWorker].op = "getMore"
    /\ res[FirstWorker].kind = "Unauthorized"
    /\ res[FirstWorker].id \in cursors
    /\ refs # {}
    /\ cmdPc = "thrown"
    /\ cmdThrown = "Unauthorized"
    /\ SysCommand(cmdNs) = "killop"
    /\ cmdAudit.code = "Unauthorized"

\* ========================================================================
\* Properties of the operation ids of inprog and killop (under SpecOpid)
\* ========================================================================
ColonFree(name) == Find(name, ":") = npos

OpidString(i) == GetField(opListed[i], "opid").val.s

\* C23: for a shard whose name contains no colon and a non-negative local
\* opid, the opid string inprog lists for the entry is the shard name, a
\* colon and the opid, and killop given that string as its operand
\* contacts that shard, and only it, with that local opid; the strings
\* listed for two different shards with colon-free names differ.
C23_OpidRoundTrip ==
    /\ opPc # "idle" =>
          \A i \in 1..2 :
             (ColonFree(opShards[i]) /\ opOpid >= 0) =>
                OpidString(i) = opShards[i] \o <<":">> \o ToDecimal(opOpid)
    /\ (opPc = "killed" /\ ColonFree(opShards[opPick]) /\ opOpid >= 0) =>
          opKilled = <<[shard |-> opShards[opPick], what |-> "killop",
                        opid |-> opOpid]>>
    /\ (opPc # "idle" /\ ColonFree(opShards[1]) /\ ColonFree(opShards[2])) =>
          OpidString(1) # OpidString(2)

\* shards "a" and "a0" both report opid MaxOpid; the one listed for "a0" is
\* killed
C23_Witness ==
    /\ opPc = "killed"
    /\ opShards = << <<"a">>, <<"a", "0">> >>
    /\ opOpid = MaxOpid
    /\ opPick = 2
    /\ opKilled = <<[shard |-> <<"a", "0">>, what |-> "killop",
                     opid |-> MaxOpid]>>

====
